---- MODULE Spec2Model ----
(***************************************************************************)
(* Supervisor-routing workflow of backend/langgraph_agents.py served by    *)
(* the FastAPI handlers of backend/app.py.                                 *)
(*                                                                         *)
(* Text is a sequence of one-character strings, so that str.strip and      *)
(* str.upper are computed character by character.  Node names, roles and   *)
(* dictionary keys are identifiers and are plain strings.                  *)
(***************************************************************************)
EXTENDS Naturals, Sequences, FiniteSets, TLC

\* ------------------------------------------------------------------ bounds

\* number of request slots the server handles
NumReq == 1

\* number of POST /chat requests accepted in one behaviour
MaxInvocations == 2

Reqs == 1..NumReq

\* ------------------------------------------------------------------- text

LowerAlpha ==
  << "a","b","c","d","e","f","g","h","i","j","k","l","m",
     "n","o","p","q","r","s","t","u","v","w","x","y","z" >>

UpperAlpha ==
  << "A","B","C","D","E","F","G","H","I","J","K","L","M",
     "N","O","P","Q","R","S","T","U","V","W","X","Y","Z" >>

\* the characters str.strip() removes (ASCII whitespace)
Whitespace == { " ", "\t", "\n", "\r", "\f" }

UpperChar(c) ==
  IF \E i \in 1..Len(LowerAlpha) : LowerAlpha[i] = c
    THEN UpperAlpha[CHOOSE i \in 1..Len(LowerAlpha) : LowerAlpha[i] = c]
    ELSE c

\* str.upper()
Upper(s) == [i \in 1..Len(s) |-> UpperChar(s[i])]

RECURSIVE LStrip(_)
LStrip(s) ==
  IF Len(s) > 0 /\ s[1] \in Whitespace THEN LStrip(Tail(s)) ELSE s

RECURSIVE RStrip(_)
RStrip(s) ==
  IF Len(s) > 0 /\ s[Len(s)] \in Whitespace
    THEN RStrip(SubSeq(s, 1, Len(s) - 1))
    ELSE s

\* str.lstrip() in place of str.strip()
StripLeftOnly(s) == LStrip(s)

\* str.strip()
Strip(s) == RStrip(LStrip(s))

\* dict.get(key, default) on a mapping with identifier keys
Get(d, k, default) == IF k \in DOMAIN d THEN d[k] ELSE default

\* ---------------------------------------------------------- program text

SCIENTIST == << "S","C","I","E","N","T","I","S","T" >>
CREATIVE  == << "C","R","E","A","T","I","V","E" >>
CODER     == << "C","O","D","E","R" >>

Labels == { SCIENTIST, CREATIVE, CODER }

\* valid_agents that also accepts UNKNOWN
valid_agents_WithUnknown ==
  << SCIENTIST, CREATIVE, CODER, << "U","N","K","N","O","W","N" >> >>

\* supervisor_node: valid_agents
valid_agents == << SCIENTIST, CREATIVE, CODER >>

\* route_to_agent: routing, a dict from label text to node name
routing == << <<SCIENTIST, "scientist">>, <<CREATIVE, "creative">>, <<CODER, "coder">> >>

\* routing.get(key, default)
RoutingGet(key, default) ==
  IF \E i \in 1..Len(routing) : routing[i][1] = key
    THEN routing[CHOOSE i \in 1..Len(routing) : routing[i][1] = key][2]
    ELSE default

\* NextNode with a retry edge from scientist back to supervisor
NextNodeRetry(node) ==
  CASE node = "START"     -> "supervisor"
    [] node = "scientist" -> "supervisor"
    [] node = "creative"  -> "END"
    [] node = "coder"     -> "END"

\* NextNode with an edge from creative back to supervisor
NextNodeCreativeLoops(node) ==
  CASE node = "START"     -> "supervisor"
    [] node = "scientist" -> "END"
    [] node = "creative"  -> "supervisor"
    [] node = "coder"     -> "END"

\* add_edge: the unconditional edges of the graph
NextNode(node) ==
  CASE node = "START"     -> "supervisor"
    [] node = "scientist" -> "END"
    [] node = "creative"  -> "END"
    [] node = "coder"     -> "END"

\* add_conditional_edges: the path map from the router's value to a node
PathMap == [scientist |-> "scientist", creative |-> "creative", coder |-> "coder"]

Specialists == { "scientist", "creative", "coder" }

\* Chain with coder_node building the scientist's chain
ChainCopyPaste(node) ==
  CASE node = "supervisor" -> "supervisor_prompt"
    [] node = "scientist"  -> "scientist_prompt"
    [] node = "creative"   -> "creative_prompt"
    [] node = "coder"      -> "scientist_prompt"

\* the chain each node builds: create_supervisor, create_*_agent
Chain(node) ==
  CASE node = "supervisor" -> "supervisor_prompt"
    [] node = "scientist"  -> "scientist_prompt"
    [] node = "creative"   -> "creative_prompt"
    [] node = "coder"      -> "coder_prompt"

\* the display glyph each specialist node puts before the response
Glyph(node) ==
  CASE node = "scientist" -> "U+1F52C"
    [] node = "creative"  -> "U+1F3A8"
    [] node = "coder"     -> "U+1F4BB"

\* FinalResponse without the space after the glyph
FinalResponseNoSpace(node, response) == << Glyph(node) >> \o response

\* f"<glyph> {response}"
FinalResponse(node, response) == << Glyph(node), " " >> \o response

HumanMessage(content) == [role |-> "human", content |-> content]
AIMessage(content) == [role |-> "ai", content |-> content]

\* add_messages replacing the list, as a key without a reducer would
add_messages_Overwrite(left, right) == right

\* the add_messages reducer on messages without ids: append
add_messages(left, right) == left \o right

\* Decision falling back to CODER
DecisionDefaultCoder(raw) ==
  LET decision == Upper(Strip(raw))
  IN  IF \E i \in 1..Len(valid_agents) : valid_agents[i] = decision
        THEN decision
        ELSE CODER

\* Decision without the validation against valid_agents
DecisionNoFallback(raw) == Upper(Strip(raw))

\* supervisor_node: the decision computed from the chain's raw output
Decision(raw) ==
  LET decision == Upper(Strip(raw))
  IN  IF \E i \in 1..Len(valid_agents) : valid_agents[i] = decision
        THEN decision
        ELSE SCIENTIST

\* route_to_agent with coder as the default branch
route_to_agent_DefaultCoder(st) ==
  LET next_agent == Upper(Get(st, "next_agent", << >>))
  IN  RoutingGet(next_agent, "coder")

\* route_to_agent
route_to_agent(st) ==
  LET next_agent == Upper(Get(st, "next_agent", << >>))
  IN  RoutingGet(next_agent, "scientist")

unknown == << "u","n","k","n","o","w","n" >>
NoResponseGenerated ==
  << "N","o"," ","r","e","s","p","o","n","s","e"," ",
     "g","e","n","e","r","a","t","e","d" >>

\* ChatResult reading the label under a key the state does not have
ChatResultWrongKey(res) ==
  [ agent_used |-> Get(res, "agent", unknown),
    response |-> Get(res, "final_response", NoResponseGenerated) ]

\* chat_with_agents: the returned dict
ChatResult(res) ==
  [ agent_used |-> Get(res, "next_agent", unknown),
    response |-> Get(res, "final_response", NoResponseGenerated) ]

\* ----------------------------------------------------------------- inputs

\* message bodies a client may post
Messages ==
  { << >>,
    << " ", "\n" >>,
    << "h","i" >>,
    << " ","2","+","2"," " >> }

\* raw texts the model may return to the supervisor chain
ClassifierReplies ==
  { SCIENTIST, CREATIVE, CODER,
    << " "," ","s","c","i","e","n","t","i","s","t"," "," " >>,
    << "c","o","d","e","r" >>,
    << "C","r","e","a","t","i","v","e","\n" >>,
    << >>,
    << "U","N","K","N","O","W","N" >>,
    << "C","O","D","E","R","." >>,
    << "U","s","e"," ","C","O","D","E","R" >> }

\* raw texts the model may return to a specialist chain
SpecialistReplies == { << "o","k" >>, << >> }

\* descriptions of the exceptions the LLM client may raise
LLMErrors == { "APIConnectionError", "RateLimitError" }

\* ------------------------------------------------------------------ state

VARIABLES
  pc,            \* per request: the handler's position
  request,       \* per request: ChatRequest.message
  fn,            \* per request: chat's local chat_with_agents
  state,         \* per request: the AgentState flowing through the graph
  visited,       \* per request: the graph nodes entered, in order
  calls,         \* per request: the LLM client calls made, in order
  result,        \* per request: the dict chat_with_agents returned
  error,         \* per request: the exception in flight
  http,          \* per request: the HTTP response sent
  _agent_graph,  \* app.py module global
  agent_graph,   \* langgraph_agents.py module global, None until imported
  static,        \* the last response of GET / or GET /health
  invocations    \* POST /chat requests accepted so far

vars ==
  << pc, request, fn, state, visited, calls, result, error, http,
     _agent_graph, agent_graph, static, invocations >>

\* initial_state keeping one message per invocation made so far
initial_state_WithMemory(user_message) ==
  [ messages |-> [i \in 1..invocations |-> HumanMessage(user_message)],
    next_agent |-> << >>,
    final_response |-> << >> ]

\* initial_state with the placeholder label in next_agent
initial_state_UnknownLabel(user_message) ==
  [ messages |-> << HumanMessage(user_message) >>,
    next_agent |-> << "u","n","k","n","o","w","n" >>,
    final_response |-> << >> ]

\* chat_with_agents: initial_state
initial_state(user_message) ==
  [ messages |-> << HumanMessage(user_message) >>,
    next_agent |-> << >>,
    final_response |-> << >> ]

None == "None"
NoState == << >>

\* no GET request answered yet
NoReply == [endpoint |-> "none"]

Init ==
  /\ pc = [r \in Reqs |-> "idle"]
  /\ request = [r \in Reqs |-> << >>]
  /\ fn = [r \in Reqs |-> None]
  /\ state = [r \in Reqs |-> NoState]
  /\ visited = [r \in Reqs |-> << >>]
  /\ calls = [r \in Reqs |-> << >>]
  /\ result = [r \in Reqs |-> NoState]
  /\ error = [r \in Reqs |-> None]
  /\ http = [r \in Reqs |-> NoState]
  /\ _agent_graph = None
  /\ agent_graph = None
  /\ static = NoReply
  /\ invocations = 0

\* last_message with the content stripped before it is passed on
last_message_Stripped(st) == Strip(st["messages"][Len(st["messages"])].content)

\* the content of the last message of a state
last_message(st) == st["messages"][Len(st["messages"])].content

\* a graph step's returned dict applied to the state: messages goes through
\* its reducer, every other key is overwritten
Update(st, upd) ==
  [ k \in DOMAIN st |->
      IF k \in DOMAIN upd
        THEN IF k = "messages" THEN add_messages(st[k], upd[k]) ELSE upd[k]
        ELSE st[k] ]

\* ---------------------------------------------------------------- actions

\* Chat testing the message without strip()
ChatNoStrip(r, m) ==
  /\ pc[r] = "idle"
  /\ invocations < MaxInvocations
  /\ invocations' = invocations + 1
  /\ request' = [request EXCEPT ![r] = m]
  /\ IF m = << >>
       THEN /\ http' = [http EXCEPT ![r] =
                 [status |-> 400, detail |-> "Message cannot be empty"]]
            /\ pc' = [pc EXCEPT ![r] = "done"]
       ELSE /\ http' = http
            /\ pc' = [pc EXCEPT ![r] = "get_chat_function"]
  /\ UNCHANGED << fn, state, visited, calls, result, error, _agent_graph, agent_graph, static >>

\* chat: the request arrives; a blank message is refused with 400
Chat(r, m) ==
  /\ pc[r] = "idle"
  /\ invocations < MaxInvocations
  /\ invocations' = invocations + 1
  /\ request' = [request EXCEPT ![r] = m]
  /\ IF Strip(m) = << >>
       THEN /\ http' = [http EXCEPT ![r] =
                 [status |-> 400, detail |-> "Message cannot be empty"]]
            /\ pc' = [pc EXCEPT ![r] = "done"]
       ELSE /\ http' = http
            /\ pc' = [pc EXCEPT ![r] = "get_chat_function"]
  /\ UNCHANGED << fn, state, visited, calls, result, error, _agent_graph, agent_graph, static >>

\* get_chat_function: the test of the global
GetChatFunctionTest(r) ==
  /\ pc[r] = "get_chat_function"
  /\ pc' = [pc EXCEPT ![r] = IF _agent_graph = None THEN "import" ELSE "return_fn"]
  /\ UNCHANGED << request, fn, state, visited, calls, result, error, http,
                  _agent_graph, invocations, agent_graph, static >>

\* GetChatFunctionImport caching the compiled graph in place of the function
GetChatFunctionImportGraph(r) ==
  /\ pc[r] = "import"
  /\ agent_graph' = IF agent_graph = None THEN "compiled" ELSE agent_graph
  /\ _agent_graph' = agent_graph'
  /\ pc' = [pc EXCEPT ![r] = "return_fn"]
  /\ UNCHANGED << request, fn, state, visited, calls, result, error, http,
                  invocations, static >>

\* get_chat_function: the import (the first one runs langgraph_agents.py
\* and builds its agent_graph) and the assignment to the global
GetChatFunctionImport(r) ==
  /\ pc[r] = "import"
  /\ agent_graph' = IF agent_graph = None THEN "compiled" ELSE agent_graph
  /\ _agent_graph' = "chat_with_agents"
  /\ pc' = [pc EXCEPT ![r] = "return_fn"]
  /\ UNCHANGED << request, fn, state, visited, calls, result, error, http,
                  invocations, static >>

\* get_chat_function: return _agent_graph, bound to chat's local
GetChatFunctionReturn(r) ==
  /\ pc[r] = "return_fn"
  /\ fn' = [fn EXCEPT ![r] = _agent_graph]
  /\ pc' = [pc EXCEPT ![r] = "chat_with_agents"]
  /\ UNCHANGED << request, state, visited, calls, result, error, http,
                  _agent_graph, invocations, agent_graph, static >>

\* ChatWithAgents with one state dict shared by every invocation
ChatWithAgentsSharedState(r) ==
  /\ pc[r] = "chat_with_agents"
  /\ fn[r] = "chat_with_agents"
  /\ agent_graph = "compiled"
  /\ state' = [q \in DOMAIN state |-> initial_state(request[r])]
  /\ visited' = [visited EXCEPT ![r] = << "START" >>]
  /\ pc' = [pc EXCEPT ![r] = NextNode("START")]
  /\ UNCHANGED << request, fn, calls, result, error, http, _agent_graph,
                  invocations, agent_graph, static >>

\* chat_with_agents: build initial_state and enter the graph at START
ChatWithAgents(r) ==
  /\ pc[r] = "chat_with_agents"
  /\ fn[r] = "chat_with_agents"
  /\ agent_graph = "compiled"
  /\ state' = [state EXCEPT ![r] = initial_state(request[r])]
  /\ visited' = [visited EXCEPT ![r] = << "START" >>]
  /\ pc' = [pc EXCEPT ![r] = NextNode("START")]
  /\ UNCHANGED << request, fn, calls, result, error, http, _agent_graph,
                  invocations, agent_graph, static >>

\* NodeCall invoking the chain twice
NodeCallTwice(r, node) ==
  /\ pc[r] = node
  /\ visited' = [visited EXCEPT ![r] = Append(@, node)]
  /\ calls' = [calls EXCEPT ![r] = @ \o
        << [ chain |-> Chain(node), input |-> last_message(state[r]),
             status |-> "pending", output |-> << >> ],
           [ chain |-> Chain(node), input |-> last_message(state[r]),
             status |-> "pending", output |-> << >> ] >>]
  /\ pc' = [pc EXCEPT ![r] = "llm"]
  /\ UNCHANGED << request, fn, state, result, error, http, _agent_graph,
                  invocations, agent_graph, static >>

\* a node invokes its chain on the last message
NodeCall(r, node) ==
  /\ pc[r] = node
  /\ visited' = [visited EXCEPT ![r] = Append(@, node)]
  /\ calls' = [calls EXCEPT ![r] = Append(@,
        [ chain |-> Chain(node), input |-> last_message(state[r]),
          status |-> "pending", output |-> << >> ])]
  /\ pc' = [pc EXCEPT ![r] = "llm"]
  /\ UNCHANGED << request, fn, state, result, error, http, _agent_graph,
                  invocations, agent_graph, static >>

\* the node whose chain call is pending
CurrentNode(r) == visited[r][Len(visited[r])]

\* the pending call of a request is answered with text
Answered(r, text) ==
  calls' = [calls EXCEPT ![r][Len(calls[r])] =
              [@ EXCEPT !.status = "returned", !.output = text]]

\* supervisor_node: entry up to the chain call
SupervisorCall(r) ==
  /\ pc[r] = "supervisor"
  /\ NodeCall(r, "supervisor")

\* SupervisorReturn that also writes the raw text as the final response
SupervisorReturnWritesResponse(r, raw) ==
  /\ pc[r] = "llm"
  /\ CurrentNode(r) = "supervisor"
  /\ Answered(r, raw)
  /\ state' = [state EXCEPT ![r] =
        Update(@, [next_agent |-> Decision(raw), final_response |-> raw])]
  /\ pc' = [pc EXCEPT ![r] = "route"]
  /\ UNCHANGED << request, fn, visited, result, error, http, _agent_graph,
                  invocations, agent_graph, static >>

\* supervisor_node: the chain returns raw, the decision is written
SupervisorReturn(r, raw) ==
  /\ pc[r] = "llm"
  /\ CurrentNode(r) = "supervisor"
  /\ Answered(r, raw)
  /\ state' = [state EXCEPT ![r] = Update(@, [next_agent |-> Decision(raw)])]
  /\ pc' = [pc EXCEPT ![r] = "route"]
  /\ UNCHANGED << request, fn, visited, result, error, http, _agent_graph,
                  invocations, agent_graph, static >>

\* the conditional edge after supervisor: route_to_agent through the path map
Route(r) ==
  /\ pc[r] = "route"
  /\ pc' = [pc EXCEPT ![r] = PathMap[route_to_agent(state[r])]]
  /\ UNCHANGED << request, fn, state, visited, calls, result, error, http,
                  _agent_graph, invocations, agent_graph, static >>

\* scientist_node, creative_node, coder_node: entry up to the chain call
SpecialistCall(r, node) ==
  /\ node \in Specialists
  /\ NodeCall(r, node)

\* scientist_node, creative_node, coder_node: the chain returns, the node's
\* dict is applied and the edge to END is taken
SpecialistReturn(r, node, response) ==
  /\ pc[r] = "llm"
  /\ node \in Specialists
  /\ CurrentNode(r) = node
  /\ Answered(r, response)
  /\ state' = [state EXCEPT ![r] = Update(@,
        [ final_response |-> FinalResponse(node, response),
          messages |-> << AIMessage(response) >> ])]
  /\ visited' = [visited EXCEPT ![r] =
        IF NextNode(node) = "END" THEN Append(@, "END") ELSE @]
  /\ pc' = [pc EXCEPT ![r] = NextNode(node)]
  /\ UNCHANGED << request, fn, result, error, http, _agent_graph, invocations, agent_graph, static >>

\* LLMRaise with the node run again after a failure
LLMRaiseRetry(r, e) ==
  /\ pc[r] = "llm"
  /\ calls' = [calls EXCEPT ![r][Len(calls[r])].status = "raised"]
  /\ pc' = [pc EXCEPT ![r] = CurrentNode(r)]
  /\ UNCHANGED << request, fn, state, visited, result, error, http,
                  _agent_graph, invocations, agent_graph, static >>

\* LLMRaise with a supervisor that catches the failure and falls back
LLMRaiseFallback(r, e) ==
  /\ pc[r] = "llm"
  /\ calls' = [calls EXCEPT ![r][Len(calls[r])].status = "raised"]
  /\ IF CurrentNode(r) = "supervisor"
       THEN /\ state' = [state EXCEPT ![r] = Update(@, [next_agent |-> SCIENTIST])]
            /\ pc' = [pc EXCEPT ![r] = "route"]
            /\ error' = error
       ELSE /\ state' = state
            /\ pc' = [pc EXCEPT ![r] = "except"]
            /\ error' = [error EXCEPT ![r] = e]
  /\ UNCHANGED << request, fn, visited, result, http, _agent_graph,
                  invocations, agent_graph, static >>

\* the LLM client raises inside a chain call; nothing in the graph catches it
LLMRaise(r, e) ==
  /\ pc[r] = "llm"
  /\ calls' = [calls EXCEPT ![r][Len(calls[r])].status = "raised"]
  /\ error' = [error EXCEPT ![r] = e]
  /\ pc' = [pc EXCEPT ![r] = "except"]
  /\ UNCHANGED << request, fn, state, visited, result, http, _agent_graph,
                  invocations, agent_graph, static >>

\* chat_with_agents: agent_graph.invoke returned, the result dict is built
ChatWithAgentsReturn(r) ==
  /\ pc[r] = "END"
  /\ result' = [result EXCEPT ![r] = ChatResult(state[r])]
  /\ pc' = [pc EXCEPT ![r] = "respond"]
  /\ UNCHANGED << request, fn, state, visited, calls, error, http,
                  _agent_graph, invocations, agent_graph, static >>

\* chat: return ChatResponse
ChatRespond(r) ==
  /\ pc[r] = "respond"
  /\ http' = [http EXCEPT ![r] =
        [ status |-> 200, agent_used |-> result[r]["agent_used"],
          response |-> result[r]["response"] ]]
  /\ pc' = [pc EXCEPT ![r] = "done"]
  /\ UNCHANGED << request, fn, state, visited, calls, result, error,
                  _agent_graph, invocations, agent_graph, static >>

\* ChatExcept reporting the failure as a client error
ChatExceptClientError(r) ==
  /\ pc[r] = "except"
  /\ http' = [http EXCEPT ![r] = [status |-> 400, detail |-> error[r]]]
  /\ pc' = [pc EXCEPT ![r] = "done"]
  /\ UNCHANGED << request, fn, state, visited, calls, result, error,
                  _agent_graph, invocations, agent_graph, static >>

\* ChatExcept answering with the label already chosen and a placeholder
ChatExceptPartial(r) ==
  /\ pc[r] = "except"
  /\ http' = [http EXCEPT ![r] =
        [ status |-> 200, agent_used |-> Get(state[r], "next_agent", unknown),
          response |-> NoResponseGenerated ]]
  /\ pc' = [pc EXCEPT ![r] = "done"]
  /\ UNCHANGED << request, fn, state, visited, calls, result, error,
                  _agent_graph, invocations, agent_graph, static >>

\* chat: except Exception as e -> HTTPException(500, str(e))
ChatExcept(r) ==
  /\ pc[r] = "except"
  /\ http' = [http EXCEPT ![r] = [status |-> 500, detail |-> error[r]]]
  /\ pc' = [pc EXCEPT ![r] = "done"]
  /\ UNCHANGED << request, fn, state, visited, calls, result, error,
                  _agent_graph, invocations, agent_graph, static >>

\* root that first loads the chat function
rootLoadsGraph ==
  /\ static' =
       [ endpoint |-> "/",
         message |-> "U+1F916 Multi-Agent Chatbot API",
         agents |-> << "U+1F52C Scientist", "U+1F3A8 Creative",
                       "U+1F4BB Coder" >>,
         docs |-> "/docs" ]
  /\ _agent_graph' = "chat_with_agents"
  /\ agent_graph' = "compiled"
  /\ UNCHANGED << pc, request, fn, state, visited, calls, result, error, http,
                  invocations >>

\* root: GET /
root ==
  /\ static' =
       [ endpoint |-> "/",
         message |-> "U+1F916 Multi-Agent Chatbot API",
         agents |-> << "U+1F52C Scientist", "U+1F3A8 Creative",
                       "U+1F4BB Coder" >>,
         docs |-> "/docs" ]
  /\ UNCHANGED << pc, request, fn, state, visited, calls, result, error, http,
                  _agent_graph, agent_graph, invocations >>

\* health_check: GET /health
health_check ==
  /\ static' = [ endpoint |-> "/health", status |-> "healthy" ]
  /\ UNCHANGED << pc, request, fn, state, visited, calls, result, error, http,
                  _agent_graph, agent_graph, invocations >>

\* Release that also drops the cached chat function
ReleaseUnload(r) ==
  /\ pc[r] = "done"
  /\ invocations < MaxInvocations
  /\ pc' = [pc EXCEPT ![r] = "idle"]
  /\ request' = [request EXCEPT ![r] = << >>]
  /\ fn' = [fn EXCEPT ![r] = None]
  /\ state' = [state EXCEPT ![r] = NoState]
  /\ visited' = [visited EXCEPT ![r] = << >>]
  /\ calls' = [calls EXCEPT ![r] = << >>]
  /\ result' = [result EXCEPT ![r] = NoState]
  /\ error' = [error EXCEPT ![r] = None]
  /\ http' = [http EXCEPT ![r] = NoState]
  /\ _agent_graph' = None
  /\ UNCHANGED << invocations, agent_graph, static >>

\* the response is sent and the handler's frame is gone; the slot is free
Release(r) ==
  /\ pc[r] = "done"
  /\ invocations < MaxInvocations
  /\ pc' = [pc EXCEPT ![r] = "idle"]
  /\ request' = [request EXCEPT ![r] = << >>]
  /\ fn' = [fn EXCEPT ![r] = None]
  /\ state' = [state EXCEPT ![r] = NoState]
  /\ visited' = [visited EXCEPT ![r] = << >>]
  /\ calls' = [calls EXCEPT ![r] = << >>]
  /\ result' = [result EXCEPT ![r] = NoState]
  /\ error' = [error EXCEPT ![r] = None]
  /\ http' = [http EXCEPT ![r] = NoState]
  /\ UNCHANGED << _agent_graph, invocations, agent_graph, static >>

Next ==
  \/ \E r \in DOMAIN pc, m \in Messages : Chat(r, m)
  \/ \E r \in DOMAIN pc : GetChatFunctionTest(r)
  \/ \E r \in DOMAIN pc : GetChatFunctionImport(r)
  \/ \E r \in DOMAIN pc : GetChatFunctionReturn(r)
  \/ \E r \in DOMAIN pc : ChatWithAgents(r)
  \/ \E r \in DOMAIN pc : SupervisorCall(r)
  \/ \E r \in DOMAIN pc, raw \in ClassifierReplies : SupervisorReturn(r, raw)
  \/ \E r \in DOMAIN pc : Route(r)
  \/ \E r \in DOMAIN pc, node \in Specialists : SpecialistCall(r, node)
  \/ \E r \in DOMAIN pc, node \in Specialists, response \in SpecialistReplies :
       SpecialistReturn(r, node, response)
  \/ \E r \in DOMAIN pc, e \in LLMErrors : LLMRaise(r, e)
  \/ \E r \in DOMAIN pc : ChatWithAgentsReturn(r)
  \/ \E r \in DOMAIN pc : ChatRespond(r)
  \/ \E r \in DOMAIN pc : ChatExcept(r)
  \/ \E r \in DOMAIN pc : Release(r)
  \/ root
  \/ health_check

Spec == Init /\ [][Next]_vars

\* ------------------------------------------ concurrent POST /chat requests

\* number of POST /chat handlers running at once
NumConc == 2

ConcReqs == 1..NumConc

ConcMessages == { << "h","i" >>, << " ","2","+","2"," " >> }

ConcClassifierReplies ==
  { << "C","r","e","a","t","i","v","e","\n" >>,
    << "U","N","K","N","O","W","N" >> }

ConcSpecialistReplies == { << "o","k" >>, << >> }

ConcErrors == { "APIConnectionError" }

InitConc ==
  /\ pc = [r \in ConcReqs |-> "idle"]
  /\ request = [r \in ConcReqs |-> << >>]
  /\ fn = [r \in ConcReqs |-> None]
  /\ state = [r \in ConcReqs |-> NoState]
  /\ visited = [r \in ConcReqs |-> << >>]
  /\ calls = [r \in ConcReqs |-> << >>]
  /\ result = [r \in ConcReqs |-> NoState]
  /\ error = [r \in ConcReqs |-> None]
  /\ http = [r \in ConcReqs |-> NoState]
  /\ _agent_graph = None
  /\ agent_graph = None
  /\ static = NoReply
  /\ invocations = 0

NextConc ==
  \/ \E r \in DOMAIN pc, m \in ConcMessages : Chat(r, m)
  \/ \E r \in DOMAIN pc : GetChatFunctionTest(r)
  \/ \E r \in DOMAIN pc : GetChatFunctionImport(r)
  \/ \E r \in DOMAIN pc : GetChatFunctionReturn(r)
  \/ \E r \in DOMAIN pc : ChatWithAgents(r)
  \/ \E r \in DOMAIN pc : SupervisorCall(r)
  \/ \E r \in DOMAIN pc, raw \in ConcClassifierReplies : SupervisorReturn(r, raw)
  \/ \E r \in DOMAIN pc : Route(r)
  \/ \E r \in DOMAIN pc, node \in Specialists : SpecialistCall(r, node)
  \/ \E r \in DOMAIN pc, node \in Specialists,
          response \in ConcSpecialistReplies :
       SpecialistReturn(r, node, response)
  \/ \E r \in DOMAIN pc, e \in ConcErrors : LLMRaise(r, e)
  \/ \E r \in DOMAIN pc : ChatWithAgentsReturn(r)
  \/ \E r \in DOMAIN pc : ChatRespond(r)
  \/ \E r \in DOMAIN pc : ChatExcept(r)
  \/ \E r \in DOMAIN pc : Release(r)

SpecConc == InitConc /\ [][NextConc]_vars

\* ------------------------------------- a handler that is running keeps going

\* the next step of the handler of request r: the worker thread runs on, and
\* a pending LLM call returns or raises
HandlerStep(r) ==
  \/ GetChatFunctionTest(r)
  \/ GetChatFunctionImport(r)
  \/ GetChatFunctionReturn(r)
  \/ ChatWithAgents(r)
  \/ SupervisorCall(r)
  \/ \E raw \in ConcClassifierReplies : SupervisorReturn(r, raw)
  \/ Route(r)
  \/ \E node \in Specialists : SpecialistCall(r, node)
  \/ \E node \in Specialists, response \in ConcSpecialistReplies :
       SpecialistReturn(r, node, response)
  \/ \E e \in ConcErrors : LLMRaise(r, e)
  \/ ChatWithAgentsReturn(r)
  \/ ChatRespond(r)
  \/ ChatExcept(r)

SpecLive ==
  /\ Init
  /\ [][NextConc]_vars
  /\ \A r \in Reqs : WF_vars(HandlerStep(r))

\* ------------------------------- the lesson script 3_langgraph_agents.py

\* the model each module configures its llm with
llm_model == "qwen/qwen-2.5-72b-instruct"
Lesson_llm_model == "openai/gpt-3.5-turbo"

\* supervisor_node: valid_agents
Lesson_valid_agents ==
  << << "S","C","I","E","N","T","I","S","T" >>,
     << "C","R","E","A","T","I","V","E" >>,
     << "C","O","D","E","R" >> >>

\* Lesson_Decision without upper()
Lesson_DecisionNoUpper(raw) ==
  LET decision == Strip(raw)
  IN  IF \E i \in 1..Len(Lesson_valid_agents) : Lesson_valid_agents[i] = decision
        THEN decision
        ELSE << "S","C","I","E","N","T","I","S","T" >>

\* supervisor_node: the decision computed from the chain's raw output
Lesson_Decision(raw) ==
  LET decision == Upper(Strip(raw))
  IN  IF \E i \in 1..Len(Lesson_valid_agents) : Lesson_valid_agents[i] = decision
        THEN decision
        ELSE << "S","C","I","E","N","T","I","S","T" >>

\* route_to_agent: routing
Lesson_routing ==
  << << << "S","C","I","E","N","T","I","S","T" >>, "scientist" >>,
     << << "C","R","E","A","T","I","V","E" >>, "creative" >>,
     << << "C","O","D","E","R" >>, "coder" >> >>

\* route_to_agent
Lesson_route_to_agent(st) ==
  LET next_agent == Upper(Get(st, "next_agent", << >>))
  IN  IF \E i \in 1..Len(Lesson_routing) : Lesson_routing[i][1] = next_agent
        THEN Lesson_routing[
               CHOOSE i \in 1..Len(Lesson_routing) :
                 Lesson_routing[i][1] = next_agent][2]
        ELSE "scientist"

\* create_agent_graph: add_edge
Lesson_NextNode(node) ==
  CASE node = "START"     -> "supervisor"
    [] node = "scientist" -> "END"
    [] node = "creative"  -> "END"
    [] node = "coder"     -> "END"

\* create_agent_graph: add_conditional_edges
Lesson_PathMap ==
  [scientist |-> "scientist", creative |-> "creative", coder |-> "coder"]

\* the chain each node builds; the prompt texts are those of the served module
Lesson_Chain(node) ==
  CASE node = "supervisor" -> "supervisor_prompt"
    [] node = "scientist"  -> "scientist_prompt"
    [] node = "creative"   -> "creative_prompt"
    [] node = "coder"      -> "coder_prompt"

\* scientist_node, creative_node, coder_node: f"<glyph> {response}"
Lesson_FinalResponse(node, response) ==
  CASE node = "scientist" -> << "U+1F52C", " " >> \o response
    [] node = "creative"  -> << "U+1F3A8", " " >> \o response
    [] node = "coder"     -> << "U+1F4BB", " " >> \o response

\* the nodes' state["messages"][-1].content
Lesson_last_message(st) == st["messages"][Len(st["messages"])].content

\* chat_with_agents: initial_state
Lesson_initial_state(user_message) ==
  [ messages |-> << HumanMessage(user_message) >>,
    next_agent |-> << >>,
    final_response |-> << >> ]

\* chat_with_agents: the returned dict
Lesson_ChatResult(res) ==
  [ agent_used |-> Get(res, "next_agent", << "u","n","k","n","o","w","n" >>),
    response |-> Get(res, "final_response",
       << "N","o"," ","r","e","s","p","o","n","s","e"," ",
          "g","e","n","e","r","a","t","e","d" >>) ]

\* the request slot the served module runs in, and the one the script runs in
Served == "served"
Lesson == "lesson"

\* demonstrate_langgraph calls chat_with_agents(query): initial_state is
\* built and the graph is entered at START
Lesson_ChatWithAgents(m) ==
  /\ pc[Lesson] = "idle"
  /\ invocations < MaxInvocations
  /\ invocations' = invocations + 1
  /\ request' = [request EXCEPT ![Lesson] = m]
  /\ state' = [state EXCEPT ![Lesson] = Lesson_initial_state(m)]
  /\ visited' = [visited EXCEPT ![Lesson] = << "START" >>]
  /\ pc' = [pc EXCEPT ![Lesson] = Lesson_NextNode("START")]
  /\ UNCHANGED << fn, calls, result, error, http, _agent_graph, agent_graph,
                  static >>

\* a node is entered and calls its chain on the last message
Lesson_NodeCall(node) ==
  /\ pc[Lesson] = node
  /\ visited' = [visited EXCEPT ![Lesson] = Append(@, node)]
  /\ calls' = [calls EXCEPT ![Lesson] = Append(@,
        [ chain |-> Lesson_Chain(node),
          input |-> Lesson_last_message(state[Lesson]),
          status |-> "pending", output |-> << >> ])]
  /\ pc' = [pc EXCEPT ![Lesson] = "llm"]
  /\ UNCHANGED << request, fn, state, result, error, http, _agent_graph,
                  agent_graph, static, invocations >>

\* supervisor_node: entry up to the chain call
Lesson_SupervisorCall == Lesson_NodeCall("supervisor")

\* supervisor_node: the chain returns raw, the decision is written
Lesson_SupervisorReturn(raw) ==
  /\ pc[Lesson] = "llm"
  /\ CurrentNode(Lesson) = "supervisor"
  /\ Answered(Lesson, raw)
  /\ state' = [state EXCEPT ![Lesson] =
        Update(@, [next_agent |-> Lesson_Decision(raw)])]
  /\ pc' = [pc EXCEPT ![Lesson] = "route"]
  /\ UNCHANGED << request, fn, visited, result, error, http, _agent_graph,
                  agent_graph, static, invocations >>

\* the conditional edge after supervisor
Lesson_Route ==
  /\ pc[Lesson] = "route"
  /\ pc' = [pc EXCEPT ![Lesson] =
        Lesson_PathMap[Lesson_route_to_agent(state[Lesson])]]
  /\ UNCHANGED << request, fn, state, visited, calls, result, error, http,
                  _agent_graph, agent_graph, static, invocations >>

\* scientist_node, creative_node, coder_node: entry up to the chain call
Lesson_SpecialistCall(node) ==
  /\ node \in { "scientist", "creative", "coder" }
  /\ Lesson_NodeCall(node)

\* scientist_node, creative_node, coder_node: the chain returns, the node's
\* dict is applied and the edge to END is taken
Lesson_SpecialistReturn(node, response) ==
  /\ pc[Lesson] = "llm"
  /\ node \in { "scientist", "creative", "coder" }
  /\ CurrentNode(Lesson) = node
  /\ Answered(Lesson, response)
  /\ state' = [state EXCEPT ![Lesson] = Update(@,
        [ final_response |-> Lesson_FinalResponse(node, response),
          messages |-> << AIMessage(response) >> ])]
  /\ visited' = [visited EXCEPT ![Lesson] =
        IF Lesson_NextNode(node) = "END" THEN Append(@, "END") ELSE @]
  /\ pc' = [pc EXCEPT ![Lesson] = Lesson_NextNode(node)]
  /\ UNCHANGED << request, fn, result, error, http, _agent_graph, agent_graph,
                  static, invocations >>

\* the pending chain call raises: nothing in the script catches it, the
\* exception leaves chat_with_agents and demonstrate_langgraph
Lesson_LLMRaise(e) ==
  /\ pc[Lesson] = "llm"
  /\ calls' = [calls EXCEPT ![Lesson][Len(calls[Lesson])].status = "raised"]
  /\ error' = [error EXCEPT ![Lesson] = e]
  /\ pc' = [pc EXCEPT ![Lesson] = "raised"]
  /\ UNCHANGED << request, fn, state, visited, result, http, _agent_graph,
                  agent_graph, static, invocations >>

\* chat_with_agents: agent_graph.invoke returned, the result dict is built
Lesson_ChatWithAgentsReturn ==
  /\ pc[Lesson] = "END"
  /\ result' = [result EXCEPT ![Lesson] = Lesson_ChatResult(state[Lesson])]
  /\ pc' = [pc EXCEPT ![Lesson] = "returned"]
  /\ UNCHANGED << request, fn, state, visited, calls, error, http,
                  _agent_graph, agent_graph, static, invocations >>

\* demonstrate_langgraph: the result is printed, the loop takes the next query
Lesson_NextQuery ==
  /\ pc[Lesson] = "returned"
  /\ invocations < MaxInvocations
  /\ pc' = [pc EXCEPT ![Lesson] = "idle"]
  /\ request' = [request EXCEPT ![Lesson] = << >>]
  /\ state' = [state EXCEPT ![Lesson] = NoState]
  /\ visited' = [visited EXCEPT ![Lesson] = << >>]
  /\ calls' = [calls EXCEPT ![Lesson] = << >>]
  /\ result' = [result EXCEPT ![Lesson] = NoState]
  /\ UNCHANGED << fn, error, http, _agent_graph, agent_graph, static,
                  invocations >>

InitEquiv ==
  /\ pc = [r \in { Served, Lesson } |-> "idle"]
  /\ request = [r \in { Served, Lesson } |-> << >>]
  /\ fn = [r \in { Served, Lesson } |-> None]
  /\ state = [r \in { Served, Lesson } |-> NoState]
  /\ visited = [r \in { Served, Lesson } |-> << >>]
  /\ calls = [r \in { Served, Lesson } |-> << >>]
  /\ result = [r \in { Served, Lesson } |-> NoState]
  /\ error = [r \in { Served, Lesson } |-> None]
  /\ http = [r \in { Served, Lesson } |-> NoState]
  /\ _agent_graph = None
  /\ agent_graph = None
  /\ static = NoReply
  /\ invocations = 0

NextEquiv ==
  \/ \E m \in ConcMessages : Chat(Served, m)
  \/ GetChatFunctionTest(Served)
  \/ GetChatFunctionImport(Served)
  \/ GetChatFunctionReturn(Served)
  \/ ChatWithAgents(Served)
  \/ SupervisorCall(Served)
  \/ \E raw \in ConcClassifierReplies : SupervisorReturn(Served, raw)
  \/ Route(Served)
  \/ \E node \in Specialists : SpecialistCall(Served, node)
  \/ \E node \in Specialists, response \in ConcSpecialistReplies :
       SpecialistReturn(Served, node, response)
  \/ \E e \in ConcErrors : LLMRaise(Served, e)
  \/ ChatWithAgentsReturn(Served)
  \/ ChatRespond(Served)
  \/ ChatExcept(Served)
  \/ Release(Served)
  \/ \E m \in ConcMessages : Lesson_ChatWithAgents(m)
  \/ Lesson_SupervisorCall
  \/ \E raw \in ConcClassifierReplies : Lesson_SupervisorReturn(raw)
  \/ Lesson_Route
  \/ \E node \in Specialists : Lesson_SpecialistCall(node)
  \/ \E node \in Specialists, response \in ConcSpecialistReplies :
       Lesson_SpecialistReturn(node, response)
  \/ \E e \in ConcErrors : Lesson_LLMRaise(e)
  \/ Lesson_ChatWithAgentsReturn
  \/ Lesson_NextQuery

SpecEquiv == InitEquiv /\ [][NextEquiv]_vars

\* ------------------------------------------- route_to_agent on any label

\* longest label drawn from LabelChars
MaxLabelLen == 2

LabelChars == { "C", "o", "R", " " }

RouteReqs == { 1, 2 }

\* label values handed to the router
RouterLabels ==
  Labels \cup ClassifierReplies
    \cup UNION { [1..k -> LabelChars] : k \in 0..MaxLabelLen }

\* states handed to the router: every label, and the key unset
RouterStates ==
  { [ messages |-> << HumanMessage(<< "h","i" >>) >>,
      next_agent |-> label,
      final_response |-> << >> ] : label \in RouterLabels }
  \cup { [ messages |-> << HumanMessage(<< "h","i" >>) >>,
           final_response |-> << >> ] }

InitRoute ==
  /\ pc = [r \in RouteReqs |-> "route"]
  /\ request = [r \in RouteReqs |-> << "h","i" >>]
  /\ fn = [r \in RouteReqs |-> "chat_with_agents"]
  /\ state \in [RouteReqs -> RouterStates]
  /\ visited = [r \in RouteReqs |-> << "START", "supervisor" >>]
  /\ calls = [r \in RouteReqs |-> << >>]
  /\ result = [r \in RouteReqs |-> NoState]
  /\ error = [r \in RouteReqs |-> None]
  /\ http = [r \in RouteReqs |-> NoState]
  /\ _agent_graph = "chat_with_agents"
  /\ agent_graph = "compiled"
  /\ static = NoReply
  /\ invocations = 0

NextRoute == \E r \in DOMAIN pc : Route(r)

SpecRoute == InitRoute /\ [][NextRoute]_vars

\* ------------------------------------------------------ claim vocabulary

SpecialistPrompts == { "scientist_prompt", "creative_prompt", "coder_prompt" }

\* the specialist a label names
NamedSpecialist(label) ==
  CASE label = SCIENTIST -> "scientist"
    [] label = CREATIVE  -> "creative"
    [] label = CODER     -> "coder"

\* a and b are the same character up to letter case
SameLetter(a, b) ==
  \/ a = b
  \/ \E n \in 1..Len(LowerAlpha) : {a, b} = {LowerAlpha[n], UpperAlpha[n]}

\* raw is label up to letter case and surrounding whitespace
ReadsAs(raw, label) ==
  \E i \in 0..Len(raw), j \in 0..Len(raw) :
    /\ i + Len(label) + j = Len(raw)
    /\ \A k \in 1..i : raw[k] \in Whitespace
    /\ \A k \in 1..j : raw[i + Len(label) + k] \in Whitespace
    /\ \A k \in 1..Len(label) : SameLetter(raw[i + k], label[k])

\* label is l up to letter case
SameUpToCase(label, l) ==
  /\ Len(label) = Len(l)
  /\ \A k \in 1..Len(l) : SameLetter(label[k], l[k])

\* the prompt of the specialist a label names
NamedPrompt(label) ==
  CASE label = SCIENTIST -> "scientist_prompt"
    [] label = CREATIVE  -> "creative_prompt"
    [] label = CODER     -> "coder_prompt"

\* the status of the HTTP response sent to r, 0 while none is sent
Status(r) == Get(http[r], "status", 0)

\* the display glyph of the specialist a label names
NamedGlyph(label) ==
  CASE label = SCIENTIST -> "U+1F52C"
    [] label = CREATIVE  -> "U+1F3A8"
    [] label = CODER     -> "U+1F4BB"

\* some LLM call of r raised
SomeCallRaised(r) ==
  \E i \in 1..Len(calls[r]) : calls[r][i].status = "raised"

\* the label a raw classifier output stands for
ExpectedLabel(raw) ==
  IF \E label \in Labels : ReadsAs(raw, label)
    THEN CHOOSE label \in Labels : ReadsAs(raw, label)
    ELSE SCIENTIST

\* what a request with these LLM replies gets when it runs alone
ExpectedResult(raw, response) ==
  [ agent_used |-> ExpectedLabel(raw),
    response |-> << NamedGlyph(ExpectedLabel(raw)), " " >> \o response ]

\* the variables of request q
Frame(q) ==
  << pc[q], request[q], fn[q], DOMAIN state[q], DOMAIN result[q],
     DOMAIN http[q], visited[q], calls[q], error[q] >>

\* raw reads as none of the three labels
Malformed(raw) == \A label \in Labels : ~ReadsAs(raw, label)

\* every character of m is whitespace
IsBlank(m) == \A i \in 1..Len(m) : m[i] \in Whitespace

IsPrefix(s, t) == Len(s) <= Len(t) /\ \A i \in 1..Len(s) : s[i] = t[i]

\* the HTTP reply fixed by r's own message and the LLM replies r received
ExpectedReply(r) ==
  IF IsBlank(request[r])
    THEN [ status |-> 400, detail |-> "Message cannot be empty" ]
    ELSE IF SomeCallRaised(r)
      THEN [ status |-> 500, detail |-> error[r] ]
      ELSE [ status |-> 200,
             agent_used |-> ExpectedLabel(calls[r][1].output),
             response |->
               ExpectedResult(calls[r][1].output, calls[r][2].output).response ]

\* the graph run of r has a state
Started(r) == DOMAIN state[r] # {}

\* chat_with_agents has returned to r's handler
Returned(r) == DOMAIN result[r] # {}

\* the classification call of r has returned
Classified(r) == Len(calls[r]) >= 1 /\ calls[r][1].status = "returned"

\* the raw text the classification call returned
RawLabel(r) == calls[r][1].output

\* ------------------------------------------------------------------ claims

\* C1: the nodes a run has entered are always a prefix of START, supervisor,
\* one specialist, END, and a run whose chat_with_agents returned has entered
\* exactly that whole path: one specialist, nothing twice, nothing skipped.
C1_OneSpecialistPath ==
  \A r \in DOMAIN pc :
    /\ \E s \in Specialists :
         IsPrefix(visited[r], << "START", "supervisor", s, "END" >>)
    /\ Returned(r) =>
         \E s \in Specialists :
           visited[r] = << "START", "supervisor", s, "END" >>

C1_Witness ==
  \E r \in DOMAIN pc :
    /\ Returned(r)
    /\ visited[r] = << "START", "supervisor", "creative", "END" >>

\* C2: a call to the LLM client is made only when every earlier call of the
\* invocation has returned, and a successful invocation has made exactly two
\* calls: the supervisor's classification, then one specialist's.
C2_TwoCallsInSequence ==
  \A r \in DOMAIN pc :
    /\ \A i \in 1..Len(calls[r]) :
         i < Len(calls[r]) => calls[r][i].status = "returned"
    /\ Returned(r) =>
         /\ Len(calls[r]) = 2
         /\ calls[r][1].chain = "supervisor_prompt"
         /\ calls[r][2].chain \in SpecialistPrompts
         /\ calls[r][2].status = "returned"

C2_Witness ==
  \E r \in DOMAIN pc :
    /\ Returned(r)
    /\ Len(calls[r]) = 2
    /\ calls[r][2].chain = "coder_prompt"

\* C3: when the classifier's raw output reads as none of the three labels,
\* the supervisor step writes SCIENTIST, the run is not aborted by it and
\* goes on to the scientist node and the scientist's chain.
C3_MalformedDefaultsToScientist ==
  \A r \in DOMAIN pc :
    (Classified(r) /\ Malformed(RawLabel(r))) =>
      /\ state[r]["next_agent"] = SCIENTIST
      /\ Len(calls[r]) = 1 => (pc[r] \in {"route", "scientist"} /\ error[r] = None)
      /\ Len(visited[r]) >= 3 => visited[r][3] = "scientist"
      /\ Len(calls[r]) >= 2 => calls[r][2].chain = "scientist_prompt"

C3_Witness ==
  \E r \in DOMAIN pc :
    /\ Classified(r)
    /\ RawLabel(r) = << "U","s","e"," ","C","O","D","E","R" >>
    /\ Len(calls[r]) = 2
    /\ calls[r][2].status = "returned"

\* C4 as stated: whenever the raw classifier output is not literally one of
\* the three labels, a returned run has agent_used SCIENTIST and ran the
\* scientist.
C4_AnyNonLabelIsScientist ==
  \A r \in DOMAIN pc :
    (Returned(r) /\ RawLabel(r) \notin Labels) =>
      /\ result[r]["agent_used"] = SCIENTIST
      /\ visited[r][3] = "scientist"

\* C4 amended: whenever the raw classifier output reads as none of the three
\* labels up to letter case and surrounding whitespace, a returned run has
\* agent_used SCIENTIST, ran the scientist node and called its chain.
C4_MalformedResolvesToScientist ==
  \A r \in DOMAIN pc :
    (Returned(r) /\ Malformed(RawLabel(r))) =>
      /\ result[r]["agent_used"] = SCIENTIST
      /\ visited[r][3] = "scientist"
      /\ calls[r][2].chain = "scientist_prompt"
      /\ pc[r] = "done" => (Status(r) = 200 /\ http[r]["agent_used"] = SCIENTIST)

C4_Witness ==
  \E r \in DOMAIN pc :
    /\ pc[r] = "done"
    /\ Returned(r)
    /\ RawLabel(r) = << "U","N","K","N","O","W","N" >>

\* C5: when the raw classifier output reads as label L up to letter case and
\* surrounding whitespace, the supervisor step writes exactly L.
C5_CaseAndSpaceInsensitive ==
  \A r \in DOMAIN pc :
    Classified(r) =>
      \A label \in Labels :
        ReadsAs(RawLabel(r), label) => state[r]["next_agent"] = label

C5_Witness ==
  \E r \in DOMAIN pc :
    /\ Classified(r)
    /\ RawLabel(r) = << " "," ","s","c","i","e","n","t","i","s","t"," "," " >>
    /\ state[r]["next_agent"] = SCIENTIST

\* C6: the router sends each of the three labels to the specialist it
\* names, and once such a label is written only that specialist's node is
\* entered and only its prompt is used by the calls after the classification.
C6_OnlyNamedSpecialist ==
  /\ \A label \in Labels :
       route_to_agent([next_agent |-> label] @@ initial_state(<< >>))
         = NamedSpecialist(label)
  /\ \A r \in DOMAIN pc :
       (Started(r) /\ state[r]["next_agent"] \in Labels) =>
         LET label == state[r]["next_agent"]
         IN  /\ pc[r] \in Specialists => pc[r] = NamedSpecialist(label)
             /\ \A i \in 1..Len(visited[r]) :
                  visited[r][i] \in Specialists =>
                    visited[r][i] = NamedSpecialist(label)
             /\ \A i \in 1..Len(calls[r]) :
                  i >= 2 => calls[r][i].chain = NamedPrompt(label)

C6_Witness ==
  \E r \in DOMAIN pc :
    /\ Returned(r)
    /\ state[r]["next_agent"] = CODER
    /\ visited[r][3] = "coder"
    /\ calls[r][2].chain = "coder_prompt"

C8_BlankRejected ==
  \A r \in DOMAIN pc :
    (pc[r] # "idle" /\ IsBlank(request[r])) =>
      /\ pc[r] = "done"
      /\ Status(r) = 400
      /\ calls[r] = << >>
      /\ visited[r] = << >>
      /\ ~Started(r)
      /\ ~Returned(r)
      /\ fn[r] = None

C8_Witness ==
  \E r \in DOMAIN pc :
    /\ pc[r] = "done"
    /\ request[r] = << " ", "\n" >>
    /\ Status(r) = 400

\* C9: when the classification call raises, no later call is made, no
\* specialist node is entered, next_agent stays empty (no fallback label),
\* chat_with_agents returns nothing and the response is a 500 with no
\* agent_used.
C9_ClassifyFailureAborts ==
  \A r \in DOMAIN pc :
    (Len(calls[r]) >= 1 /\ calls[r][1].status = "raised") =>
      /\ Len(calls[r]) = 1
      /\ visited[r] = << "START", "supervisor" >>
      /\ state[r]["next_agent"] = << >>
      /\ ~Returned(r)
      /\ pc[r] \in {"except", "done"}
      /\ pc[r] = "done" =>
           (Status(r) = 500 /\ "agent_used" \notin DOMAIN http[r])

C9_Witness ==
  \E r \in DOMAIN pc :
    /\ pc[r] = "done"
    /\ Len(calls[r]) = 1
    /\ calls[r][1].status = "raised"
    /\ Status(r) = 500

\* C10: when the specialist call raises after a classification that
\* returned, chat_with_agents returns nothing, final_response stays empty,
\* and the response is a 500 that carries only the failure's description:
\* neither the label chosen nor a response text.
C10_SpecialistFailureAborts ==
  \A r \in DOMAIN pc :
    (Len(calls[r]) = 2 /\ calls[r][2].status = "raised") =>
      /\ Classified(r)
      /\ ~Returned(r)
      /\ state[r]["final_response"] = << >>
      /\ pc[r] \in {"except", "done"}
      /\ pc[r] = "done" =>
           /\ Status(r) = 500
           /\ DOMAIN http[r] = {"status", "detail"}
           /\ http[r]["detail"] \in LLMErrors

C10_Witness ==
  \E r \in DOMAIN pc :
    /\ pc[r] = "done"
    /\ Len(calls[r]) = 2
    /\ calls[r][2].status = "raised"
    /\ state[r]["next_agent"] = CREATIVE
    /\ Status(r) = 500

\* C11: a returned run's result has agent_used equal to the label the
\* supervisor step wrote, one of the three, and response equal to the glyph
\* of the specialist that label names, one space, and the text the
\* specialist call returned, unchanged; the 200 body carries the same two.
C11_ResultIsLabelAndGlyphedText ==
  \A r \in DOMAIN pc :
    Returned(r) =>
      /\ result[r]["agent_used"] = state[r]["next_agent"]
      /\ result[r]["agent_used"] \in Labels
      /\ visited[r][3] = NamedSpecialist(result[r]["agent_used"])
      /\ result[r]["response"] =
           << NamedGlyph(result[r]["agent_used"]), " " >> \o calls[r][2].output
      /\ pc[r] = "done" =>
           /\ http[r]["agent_used"] = result[r]["agent_used"]
           /\ http[r]["response"] = result[r]["response"]

C11_Witness ==
  \E r \in DOMAIN pc :
    /\ pc[r] = "done"
    /\ Returned(r)
    /\ http[r]["agent_used"] = CREATIVE
    /\ http[r]["response"] = << "U+1F3A8", " ", "o", "k" >>

C13_NoRetry ==
  \A r \in DOMAIN pc :
    /\ Len(calls[r]) <= 2
    /\ Cardinality({ i \in 1..Len(calls[r]) :
                       calls[r][i].chain = "supervisor_prompt" }) <= 1
    /\ Cardinality({ i \in 1..Len(calls[r]) :
                       calls[r][i].chain \in SpecialistPrompts }) <= 1
    /\ \A i \in 1..Len(calls[r]) :
         calls[r][i].status = "raised" =>
           (i = Len(calls[r]) /\ pc[r] \in {"except", "done"})

C13_Witness ==
  \E r \in DOMAIN pc :
    /\ pc[r] = "except"
    /\ Len(calls[r]) = 2
    /\ calls[r][2].status = "raised"

\* what request r has seen and produced is its own
C14_OwnData ==
  \A r \in DOMAIN pc :
    /\ Started(r) => state[r]["messages"][1] = HumanMessage(request[r])
    /\ \A i \in 1..Len(calls[r]) : calls[r][i].input = request[r]
    /\ Classified(r) => state[r]["next_agent"] = ExpectedLabel(RawLabel(r))
    /\ Returned(r) =>
         result[r] = ExpectedResult(calls[r][1].output, calls[r][2].output)
    /\ (pc[r] = "done" /\ Status(r) = 200) =>
         /\ http[r]["agent_used"] = ExpectedLabel(calls[r][1].output)
         /\ http[r]["response"] = result[r]["response"]

\* a step of one request leaves every other request's variables alone
C14_OwnStep ==
  \E r \in DOMAIN pc :
    \A q \in DOMAIN pc \ {r} :
      /\ Frame(q)' = Frame(q)
      /\ Started(q) => state'[q] = state[q]
      /\ Returned(q) => result'[q] = result[q]
      /\ Status(q) # 0 => http'[q] = http[q]

\* C14: with several POST /chat handlers interleaved step by step, every
\* request's state holds its own message, its LLM calls carry its own
\* message, its label and response are the ones its own LLM replies give
\* when it runs alone, and no step of one request changes anything of
\* another.
C14_Isolation == [](C14_OwnData) /\ [][C14_OwnStep]_vars

C14_Witness ==
  \E r1, r2 \in DOMAIN pc :
    /\ pc[r1] = "llm"
    /\ Len(calls[r1]) = 2
    /\ pc[r2] = "END"
    /\ request[r1] # request[r2]
    /\ state[r1]["next_agent"] # state[r2]["next_agent"]

\* the process-wide variables are set before any request is being handled
C15_SetBeforeFirstRequest ==
  (\E r \in DOMAIN pc : pc[r] # "idle") =>
    (_agent_graph # None /\ agent_graph # None)

\* no step assigns to a process-wide variable
C15_NoHandlerWrites ==
  /\ _agent_graph' = _agent_graph
  /\ agent_graph' = agent_graph

\* C15 as stated: the chat function reference and the compiled workflow
\* are initialized at process start, before the first request is handled,
\* and no request handler assigns to them.
C15_InitializedAtStartNeverWritten ==
  [](C15_SetBeforeFirstRequest) /\ [][C15_NoHandlerWrites]_vars

\* nothing is loaded before a /chat request asks for it, and the workflow
\* runs only once both are loaded
C15_LoadedOnDemand ==
  /\ _agent_graph \in { None, "chat_with_agents" }
  /\ agent_graph \in { None, "compiled" }
  /\ _agent_graph # None => (agent_graph = "compiled" /\ invocations > 0)
  /\ agent_graph # None => invocations > 0
  /\ \A r \in DOMAIN pc :
       /\ fn[r] # None => (fn[r] = "chat_with_agents" /\ _agent_graph = fn[r])
       /\ Started(r) => (_agent_graph # None /\ agent_graph = "compiled")

\* once set a process-wide variable keeps its value, and the only step that
\* sets one is the import step of get_chat_function
C15_SetOnceByGetChatFunction ==
  /\ _agent_graph # None => _agent_graph' = _agent_graph
  /\ agent_graph # None => agent_graph' = agent_graph
  /\ (_agent_graph' # _agent_graph \/ agent_graph' # agent_graph) =>
       \E r \in DOMAIN pc : pc[r] = "import" /\ pc'[r] = "return_fn"

\* C15 (amended): the chat function reference and the compiled workflow
\* are unset at process start and are loaded by get_chat_function inside
\* the first POST /chat request with a non-blank message; from then on
\* their values never change, and no other handler step writes them.
C15_LazyInitWriteOnce ==
  [](C15_LoadedOnDemand) /\ [][C15_SetOnceByGetChatFunction]_vars

C15_Witness ==
  /\ _agent_graph = "chat_with_agents"
  /\ invocations = 2
  /\ \E r \in DOMAIN pc :
       /\ pc[r] = "chat_with_agents"
       /\ fn[r] = _agent_graph
       /\ calls[r] = << >>

\* C16: whatever ran before, an invocation starts with nothing left over
\* (no calls, no state, no result, no error), its graph state holds its own
\* message and nothing older, and the reply it ends with is the one fixed
\* by its own message and the LLM replies it received; the number of
\* earlier invocations does not enter.
C16_HistoryIndependent ==
  \A r \in DOMAIN pc :
    /\ pc[r] \in { "get_chat_function", "import", "return_fn",
                   "chat_with_agents" } =>
         /\ calls[r] = << >>
         /\ ~Started(r)
         /\ ~Returned(r)
         /\ error[r] = None
         /\ Status(r) = 0
    /\ Started(r) =>
         /\ state[r]["messages"][1] = HumanMessage(request[r])
         /\ Len(state[r]["messages"]) =
              IF Len(calls[r]) = 2 /\ calls[r][2].status = "returned"
                THEN 2 ELSE 1
    /\ pc[r] = "done" => http[r] = ExpectedReply(r)

C16_Witness ==
  /\ invocations = 2
  /\ \E r \in DOMAIN pc :
       /\ pc[r] = "done"
       /\ Status(r) = 200
       /\ http[r] = ExpectedReply(r)

\* C17: a step that answers GET / or GET /health returns one of the two
\* fixed bodies and leaves everything else as it was: no LLM call is
\* added, no request moves, no graph state changes, and the chat function
\* and the compiled graph stay unloaded if they were.
C17_StaticHandlersTouchNothing ==
  [][ static' # static =>
        /\ \/ /\ static'["endpoint"] = "/"
              /\ static'["agents"] =
                   << "U+1F52C Scientist", "U+1F3A8 Creative", "U+1F4BB Coder" >>
              /\ static'["message"] = "U+1F916 Multi-Agent Chatbot API"
              /\ static'["docs"] = "/docs"
           \/ /\ static'["endpoint"] = "/health"
              /\ static'["status"] = "healthy"
        /\ calls' = calls
        /\ pc' = pc
        /\ visited' = visited
        /\ state' = state
        /\ _agent_graph' = _agent_graph
        /\ agent_graph' = agent_graph
        /\ << request, fn, result, error, http, invocations >>' =
             << request, fn, result, error, http, invocations >> ]_vars

C17_Witness ==
  /\ static["endpoint"] = "/"
  /\ _agent_graph = None
  /\ agent_graph = None
  /\ \E r \in DOMAIN pc : pc[r] = "get_chat_function"

\* the shape of messages at each point of a run
C18_MessagesShape ==
  \A r \in DOMAIN pc :
    Started(r) =>
      LET messages == state[r]["messages"]
          user == [ role |-> "human", content |-> request[r] ]
      IN  /\ Len(visited[r]) = 1 =>
               state[r] = [ messages |-> << user >>,
                            next_agent |-> << >>,
                            final_response |-> << >> ]
          /\ visited[r][Len(visited[r])] # "END" => messages = << user >>
          /\ visited[r][Len(visited[r])] = "END" =>
               /\ messages =
                    << user, [ role |-> "ai", content |-> calls[r][2].output ] >>
               /\ state[r]["final_response"] =
                    << NamedGlyph(state[r]["next_agent"]), " " >>
                      \o messages[2].content

\* a step of a run only ever extends messages
C18_MessagesExtend ==
  \A r \in DOMAIN pc :
    (Started(r) /\ Started(r)') =>
      IsPrefix(state[r]["messages"], state'[r]["messages"])

\* C18: a run's messages starts as the one user message, with empty
\* next_agent and final_response; every step keeps the earlier messages as
\* a prefix; up to the specialist's return (so through the supervisor step)
\* it is still the one user message; at END it is the user message followed
\* by one assistant message whose content is the specialist's raw text,
\* which is final_response without the glyph and the space.
C18_MessagesAppendOnly ==
  [](C18_MessagesShape) /\ [][C18_MessagesExtend]_vars

C18_Witness ==
  \E r \in DOMAIN pc :
    /\ pc[r] = "END"
    /\ Len(state[r]["messages"]) = 2
    /\ state[r]["messages"][2] = [ role |-> "ai", content |-> << "o","k" >> ]
    /\ state[r]["final_response"] = << "U+1F3A8", " ", "o", "k" >>

\* the step of r that completes the supervisor node
SupervisorStep(r) ==
  /\ pc[r] = "llm"
  /\ visited[r][Len(visited[r])] = "supervisor"
  /\ pc'[r] = "route"

\* the step of r that completes a specialist node
SpecialistStep(r) ==
  /\ pc[r] = "llm"
  /\ visited[r][Len(visited[r])] \in Specialists
  /\ pc'[r] = "END"

\* C19: within a run, the step completing the supervisor changes next_agent
\* and leaves messages and final_response as they were; the step completing
\* a specialist changes final_response, appends one message and leaves
\* next_agent as it was; the router step and every other step change no
\* field.  next_agent and final_response are each written once, from empty.
C19_SingleWriterPerStep ==
  [][ \A r \in DOMAIN pc :
        (Started(r) /\ Started(r)') =>
          LET old == state[r]
              new == state'[r]
          IN  /\ SupervisorStep(r) =>
                   /\ new["next_agent"] # old["next_agent"]
                   /\ new["messages"] = old["messages"]
                   /\ new["final_response"] = old["final_response"]
              /\ SpecialistStep(r) =>
                   /\ new["final_response"] # old["final_response"]
                   /\ Len(new["messages"]) = Len(old["messages"]) + 1
                   /\ IsPrefix(old["messages"], new["messages"])
                   /\ new["next_agent"] = old["next_agent"]
              /\ pc[r] = "route" => new = old
              /\ ~(SupervisorStep(r) \/ SpecialistStep(r)) => new = old
              /\ new["next_agent"] # old["next_agent"] =>
                   old["next_agent"] = << >>
              /\ new["final_response"] # old["final_response"] =>
                   old["final_response"] = << >> ]_vars

C19_Witness ==
  \E r \in DOMAIN pc :
    /\ pc[r] = "END"
    /\ state[r]["next_agent"] = CODER
    /\ state[r]["final_response"] = << "U+1F4BB", " " >>
    /\ Len(state[r]["messages"]) = 2

\* C20: in every state of a run next_agent is empty or one of SCIENTIST,
\* CREATIVE, CODER; it is empty exactly until the classification call has
\* returned and one of the three from then on, so the agent_used of a
\* returned result and of a 200 reply is one of the three; final_response
\* is non-empty only once the specialist's call has returned.
C20_LabelAndResponseDomain ==
  \A r \in DOMAIN pc :
    /\ Started(r) =>
         /\ state[r]["next_agent"] \in
              { << >>, << "S","C","I","E","N","T","I","S","T" >>,
                << "C","R","E","A","T","I","V","E" >>,
                << "C","O","D","E","R" >> }
         /\ Classified(r) <=> state[r]["next_agent"] # << >>
         /\ state[r]["final_response"] # << >> =>
              /\ Len(calls[r]) = 2
              /\ calls[r][2].status = "returned"
              /\ calls[r][2].chain \in SpecialistPrompts
    /\ Returned(r) => result[r]["agent_used"] \in Labels
    /\ Status(r) = 200 => http[r]["agent_used"] \in Labels

C20_Witness ==
  \E r \in DOMAIN pc :
    /\ Status(r) = 200
    /\ calls[r][1].output = << "C","O","D","E","R","." >>
    /\ http[r]["agent_used"] = SCIENTIST
    /\ state[r]["final_response"] # << >>

Range(seq) == { seq[i] : i \in 1..Len(seq) }

\* the number of entries of a node in the path of r
Entries(r, nodes) ==
  Cardinality({ i \in 1..Len(visited[r]) : visited[r][i] \in nodes })

\* a run takes at most one supervisor step and one specialist step
C21_BoundedSteps ==
  \A r \in DOMAIN pc :
    /\ Entries(r, { "supervisor" }) <= 1
    /\ Entries(r, Specialists) <= 1
    /\ Len(visited[r]) <= 4
    /\ Len(calls[r]) <= 2

\* C21: when every pending LLM call returns or raises and a running handler
\* keeps running, every run that has entered the graph reaches END or a
\* failure, every accepted request gets its reply, and on the way a run
\* enters the supervisor at most once and a specialist at most once.
C21_Terminates ==
  /\ [](C21_BoundedSteps)
  /\ \A r \in Reqs :
       /\ (pc[r] = "supervisor") ~> (pc[r] = "END" \/ pc[r] = "except")
       /\ (pc[r] = "get_chat_function") ~> (pc[r] = "done")

C21_Witness ==
  \E r \in DOMAIN pc :
    /\ pc[r] = "done"
    /\ visited[r] = << "START", "supervisor", "creative", "END" >>
    /\ Len(calls[r]) = 2

\* C22: every LLM call of a run is given the text the client posted,
\* character for character (surrounding whitespace included), so the
\* specialist's call is given the same text as the supervisor's; while a
\* call is pending that text is the content of the last message of the
\* run's state.
C22_SameTextToBothCalls ==
  \A r \in DOMAIN pc :
    /\ \A i \in 1..Len(calls[r]) :
         /\ Len(calls[r][i].input) = Len(request[r])
         /\ \A k \in 1..Len(request[r]) : calls[r][i].input[k] = request[r][k]
    /\ Len(calls[r]) = 2 => calls[r][2].input = calls[r][1].input
    /\ (Started(r) /\ pc[r] = "llm") =>
         LET messages == state[r]["messages"]
         IN  messages[Len(messages)].content = calls[r][Len(calls[r])].input

C22_Witness ==
  \E r \in DOMAIN pc :
    /\ request[r] = << " ","2","+","2"," " >>
    /\ Len(calls[r]) = 2
    /\ calls[r][1].input = << " ","2","+","2"," " >>
    /\ calls[r][2].input = << " ","2","+","2"," " >>
    /\ calls[r][2].status = "returned"

\* C23: once the supervisor's call has returned, next_agent is a key of the
\* router's table as written, so the lookup succeeds without its default;
\* the specialist entered is the one next_agent (and so agent_used) names,
\* and the scientist node is entered only with next_agent SCIENTIST.
C23_RouterDefaultNotTaken ==
  \A r \in DOMAIN pc :
    /\ (Started(r) /\ Classified(r)) =>
         \E key \in { << "S","C","I","E","N","T","I","S","T" >>,
                       << "C","R","E","A","T","I","V","E" >>,
                       << "C","O","D","E","R" >> } :
           /\ state[r]["next_agent"] = key
           /\ pc[r] \in Specialists => pc[r] = NamedSpecialist(key)
           /\ Len(visited[r]) >= 3 => visited[r][3] = NamedSpecialist(key)
    /\ (Started(r) /\ (pc[r] = "scientist" \/ "scientist" \in Range(visited[r]))) =>
         state[r]["next_agent"] = SCIENTIST
    /\ (Returned(r) /\ "scientist" \in Range(visited[r])) =>
         result[r]["agent_used"] = SCIENTIST

C23_Witness ==
  \E r \in DOMAIN pc :
    /\ pc[r] = "scientist"
    /\ calls[r][1].output = << "U","N","K","N","O","W","N" >>
    /\ state[r]["next_agent"] = SCIENTIST

\* C24: when the graph run has ended and when chat_with_agents has returned,
\* the final state has both keys, next_agent is one of the three labels and
\* final_response starts with a specialist's glyph and a space; the
\* returned agent_used is never "unknown" and the returned response is
\* never "No response generated", and neither is the 200 reply's.
C24_PlaceholdersUnreachable ==
  \A r \in DOMAIN pc :
    /\ (pc[r] = "END" \/ Returned(r)) =>
         /\ { "next_agent", "final_response" } \subseteq DOMAIN state[r]
         /\ state[r]["next_agent"] \in Labels
         /\ Len(state[r]["final_response"]) >= 2
         /\ state[r]["final_response"][1] \in { "U+1F52C", "U+1F3A8", "U+1F4BB" }
         /\ state[r]["final_response"][2] = " "
    /\ Returned(r) =>
         /\ result[r]["agent_used"] # << "u","n","k","n","o","w","n" >>
         /\ result[r]["agent_used"] = state[r]["next_agent"]
         /\ result[r]["response"] = state[r]["final_response"]
         /\ result[r]["response"] #
              << "N","o"," ","r","e","s","p","o","n","s","e"," ",
                 "g","e","n","e","r","a","t","e","d" >>
    /\ Status(r) = 200 =>
         /\ http[r]["agent_used"] # << "u","n","k","n","o","w","n" >>
         /\ http[r]["response"][1] \in { "U+1F52C", "U+1F3A8", "U+1F4BB" }

C24_Witness ==
  \E r \in DOMAIN pc :
    /\ Returned(r)
    /\ calls[r][2].output = << >>
    /\ result[r] = [ agent_used |-> CREATIVE, response |-> << "U+1F3A8", " " >> ]

\* what every request sees of the lazily loaded function
C25_NeverNoneToCaller ==
  /\ _agent_graph \in { None, "chat_with_agents" }
  /\ \A r \in DOMAIN pc :
       /\ pc[r] = "return_fn" => _agent_graph = "chat_with_agents"
       /\ pc[r] \in { "chat_with_agents", "supervisor", "route", "llm",
                      "END", "respond" } => fn[r] = "chat_with_agents"
       /\ fn[r] \in { None, "chat_with_agents" }

\* the only change of _agent_graph is from None to chat_with_agents, and an
\* import step that finds it set leaves it and the compiled graph as they are
C25_RacingInitIsIdempotent ==
  /\ _agent_graph' # _agent_graph =>
       (_agent_graph = None /\ _agent_graph' = "chat_with_agents")
  /\ \A r \in DOMAIN pc :
       (pc[r] = "import" /\ pc'[r] = "return_fn" /\ _agent_graph # None) =>
         /\ _agent_graph' = _agent_graph
         /\ agent_graph' = agent_graph
         /\ \A q \in DOMAIN pc : fn'[q] = fn[q]

\* C25: with several first POST /chat requests interleaved, including two
\* that both found _agent_graph unset and both run the import, _agent_graph
\* only goes from None to chat_with_agents, the second import leaves the
\* state the first one made, and every request that gets past
\* get_chat_function holds chat_with_agents, never None.
C25_LazyInitSafe ==
  [](C25_NeverNoneToCaller) /\ [][C25_RacingInitIsIdempotent]_vars

C25_Witness ==
  \E r1, r2 \in DOMAIN pc :
    /\ r1 # r2
    /\ pc[r1] = "import"
    /\ pc[r2] = "supervisor"
    /\ fn[r2] = "chat_with_agents"
    /\ _agent_graph = "chat_with_agents"

\* the two runs were given the same message and have received the same LLM
\* replies and failures so far
SameInputs(a, b) ==
  /\ Started(a)
  /\ Started(b)
  /\ request[a] = request[b]
  /\ Len(calls[a]) = Len(calls[b])
  /\ \A i \in 1..Len(calls[a]) :
       /\ calls[a][i].status = calls[b][i].status
       /\ calls[a][i].output = calls[b][i].output
  /\ error[a] = error[b]

\* C26: whenever the run of langgraph_agents.py and the run of
\* 3_langgraph_agents.py have the same message and the same LLM replies and
\* failures so far, they have entered the same nodes in the same order, made
\* the same chain calls on the same text, hold the same state, and, once both
\* have returned, the same agent_used and response; a failure ends both at
\* the same call with nothing returned.  The configured model differs.
C26_SameWorkflow ==
  /\ llm_model # Lesson_llm_model
  /\ SameInputs(Served, Lesson) =>
       /\ visited[Served] = visited[Lesson]
       /\ \A i \in 1..Len(calls[Served]) :
            /\ calls[Served][i].chain = calls[Lesson][i].chain
            /\ calls[Served][i].input = calls[Lesson][i].input
       /\ state[Served] = state[Lesson]
       /\ (Returned(Served) /\ Returned(Lesson)) =>
            result[Served] = result[Lesson]
       /\ SomeCallRaised(Served) <=> (pc[Lesson] = "raised")
       /\ SomeCallRaised(Served) =>
            /\ pc[Served] \in { "except", "done" }
            /\ calls[Served][Len(calls[Served])].status = "raised"
            /\ ~Returned(Served)
            /\ ~Returned(Lesson)
       /\ (pc[Served] = "END" \/ Returned(Served)) <=>
            (pc[Lesson] = "END" \/ Returned(Lesson))

C26_Witness ==
  /\ SameInputs(Served, Lesson)
  /\ Len(calls[Served]) = 2
  /\ calls[Served][1].output = << "C","r","e","a","t","i","v","e","\n" >>
  /\ Returned(Served)
  /\ Returned(Lesson)
  /\ result[Lesson] = [ agent_used |-> CREATIVE,
                         response |-> << "U+1F3A8", " ", "o", "k" >> ]

====
